---- MODULE Spec2Model ----
(***************************************************************************)
(* The storage stash of core/src/storage2/collections/stash/mod.rs: a      *)
(* header {last_vacant, len, len_entries} and a chunk of entries, each     *)
(* Occupied(value) or Vacant{prev, next}; the vacant entries are meant to  *)
(* form a doubly linked circular free list.  The operations put, take and  *)
(* defrag are translated statement by statement, including the fatal       *)
(* expect(..)/unreachable!(..) exits, which stop the program in the state  *)
(* reached when they fire.                                                 *)
(***************************************************************************)
EXTENDS Integers, Sequences, FiniteSets, TLC

\* ---------------------------------------------------------------- bounds

\* Number of storage cells the model lets the stash allocate.
MaxEntries == 3

\* Largest concrete max_iterations handed to defrag (besides None).
MaxIter == 2

\* The capacity N of the SmallVec<T, N> of the model.
Capacity == 3

\* Bits of the index type of the model. The code's Index is u32; two to the
\* power of 32 is no integer TLC can hold, and the only use made of a wrapped
\* index is its comparison with lengths far below it.
IndexBits == 16

\* Largest length of the storage vector an Iter runs over.
MaxLen == 3

\* Cells of the region a caller's key cursor runs over (the box's own cell
\* and its siblings).
NumCells == 3

\* Keys the dynamic allocator hands to boxes.
NumBoxKeys == 2

\* StorageBox: StorageSize::SIZE, the declared footprint of a box.
BoxFootprint == 1

\* The footprint of a Key.
KeyFootprint == 1

\* The values stored (the four values of the documented scenario).
Values == {10, 20, 30, 40}

\* Option::None for integer results and arguments.
None == -1

\* The result of a call that ended in a fatal assertion.
Aborted == -2

\* Some(()) and the () of a function that returns nothing.
Unit == 0

Idx == 0..MaxEntries

MaxIters == {None} \cup (0..MaxIter)

Min(a, b) == IF a <= b THEN a ELSE b

\* ------------------------------------------------------------ data types

\* Entry::Occupied(T)
Occupied(v) == [tag |-> "Occupied", val |-> v, prev |-> 0, next |-> 0]

\* Entry::Vacant(VacantEntry { next, prev })
Vacant(p, n) == [tag |-> "Vacant", val |-> 0, prev |-> p, next |-> n]

\* A cell of the chunk that holds no entry.
NoEntry == [tag |-> "None", val |-> 0, prev |-> 0, next |-> 0]

\* Entry::is_occupied
is_occupied(c) == c.tag = "Occupied"

\* Entry::is_vacant
is_vacant(c) == c.tag = "Vacant"

VARIABLES
    header,     \* Stash.header: [last_vacant, len, len_entries]
    entries,    \* Stash.entries: cell index -> entry
    failed,     \* "none", or the fatal assertion that stopped the program
    last,       \* the last call: [op, arg, ret, moves]
    pre,        \* header and entries as they were before the last call
    ndefrag,    \* defrag calls made so far (saturating at 2)
    scn,        \* how far the run has followed Script (-1: it left it)
    vec,        \* SmallVec: [len, elems]
    vfailed,    \* "none", or the fatal assertion that stopped the SmallVec run
    vlast,      \* the last SmallVec call: [op, a, b, ret]
    vpre,       \* vec as it was before the last SmallVec call
    ivec,       \* the storage vector an Iter borrows: its elements in order
    it,         \* Iter: [begin, end, fail]
    yielded,    \* what the Iter returned as Some so far: <<index, value>>
    itlast,     \* the last Iter call: [op, ret]
    store,      \* the backing store: key -> cell
    ptr,        \* the caller's KeyPtr
    box,        \* the StorageBox in memory: [alive, key, value]
    bfailed,    \* "none", or the fatal exit that stopped the box run
    blast,      \* the last box call: [op, ptr], ptr the cursor before it
    bpre        \* store as it was before the last box call

stashVars == <<header, entries, failed, last, pre, ndefrag, scn>>

vecVars == <<vec, vfailed, vlast, vpre>>

iterVars == <<ivec, it, yielded, itlast>>

boxVars == <<store, ptr, box, bfailed, blast, bpre>>

vars == <<header, entries, failed, last, pre, ndefrag, scn,
          vec, vfailed, vlast, vpre, ivec, it, yielded, itlast,
          store, ptr, box, bfailed, blast, bpre>>

\* The stash as one value, for the pure operators below; skip records that a
\* neighbour update found an Occupied entry and was left out.
Stash == [h |-> header, e |-> entries, fail |-> "none", skip |-> FALSE]

\* LazyChunk::get(index): the cell, absent past what was ever written.
Cell(e, i) == IF i \in DOMAIN e THEN e[i] ELSE NoEntry

\* Stash::new
new == [h |-> [last_vacant |-> 0, len |-> 0, len_entries |-> 0],
        e |-> [i \in Idx |-> NoEntry],
        fail |-> "none", skip |-> FALSE]

\* Stash::len
len(s) == s.h.len

\* Stash::len_entries
len_entries(s) == s.h.len_entries

\* Stash::has_vacant_entries
has_vacant_entries(s) == s.h.last_vacant # s.h.len_entries

\* Stash::get
get(s, at) ==
    IF at >= len_entries(s) THEN None
    ELSE IF is_occupied(Cell(s.e, at)) THEN Cell(s.e, at).val
    ELSE None

\* A fatal exit: the stash as it is, marked with the assertion that fired.
Abort(s, why) == [s EXCEPT !.fail = why]

\* entries.get_mut(i).map(..).map(Entry::try_to_vacant_mut).expect(msg).map(f):
\* fatal when the cell is absent, f applied when it is Vacant, and nothing at
\* all when it is Occupied.
Relink(s, i, setPrev, p, setNext, n, msg) ==
    LET c == Cell(s.e, i) IN
    IF s.fail # "none" THEN s
    ELSE IF c = NoEntry THEN Abort(s, msg)
    ELSE IF is_vacant(c)
         THEN [s EXCEPT !.e[i] = Vacant(IF setPrev THEN p ELSE c.prev,
                                        IF setNext THEN n ELSE c.next)]
    ELSE [s EXCEPT !.skip = TRUE]

\* Stash::remove_vacant_entry
remove_vacant_entry(s, removed_index, prev_vacant, next_vacant) ==
    IF prev_vacant = removed_index /\ next_vacant = removed_index
    THEN s
    ELSE LET s1 == IF prev_vacant = next_vacant
                   THEN Relink(s, prev_vacant, TRUE, prev_vacant, TRUE, prev_vacant,
                               "remove_vacant_entry: prev must exist")
                   ELSE Relink(Relink(s, prev_vacant, FALSE, 0, TRUE, next_vacant,
                                      "remove_vacant_entry: prev must exist"),
                               next_vacant, TRUE, prev_vacant, FALSE, 0,
                               "remove_vacant_entry: next must exist")
         IN IF s1.fail # "none" THEN s1
            ELSE [s1 EXCEPT !.h.last_vacant = Min(prev_vacant, next_vacant)]

\* The result of a call: the stash after it, what it returned, and the
\* callback invocations it made.
Result(s, r, m) == [st |-> s, ret |-> IF s.fail # "none" THEN Aborted ELSE r,
                    moves |-> m]

\* Stash::put, a variant that forgets to count the new element.
put_nocount(s, new_value) ==
    IF has_vacant_entries(s)
    THEN LET index == s.h.last_vacant
             old   == Cell(s.e, index)
             s1    == [s EXCEPT !.e[index] = Occupied(new_value)]
         IN IF old = NoEntry
            THEN Result(Abort(s1, "put: next_vacant must point to a cell"), 0, <<>>)
            ELSE IF is_occupied(old)
            THEN Result(Abort(s1, "put: next_vacant must point to a vacant entry"),
                        0, <<>>)
            ELSE Result(remove_vacant_entry(s1, index, old.prev, old.next),
                        index, <<>>)
    ELSE Result([s EXCEPT !.e[s.h.len_entries] = Occupied(new_value),
                          !.h.last_vacant = @ + 1,
                          !.h.len_entries = @ + 1],
                s.h.len_entries + 1, <<>>)

\* Stash::put
put(s, new_value) ==
    IF has_vacant_entries(s)
    THEN LET index == s.h.last_vacant
             old   == Cell(s.e, index)
             s1    == [s EXCEPT !.e[index] = Occupied(new_value)]
         IN IF old = NoEntry
            THEN Result(Abort(s1, "put: next_vacant must point to a cell"), 0, <<>>)
            ELSE IF is_occupied(old)
            THEN Result(Abort(s1, "put: next_vacant must point to a vacant entry"),
                        0, <<>>)
            ELSE LET s2 == remove_vacant_entry(s1, index, old.prev, old.next)
                 IN IF s2.fail # "none" THEN Result(s2, 0, <<>>)
                    ELSE Result([s2 EXCEPT !.h.len = @ + 1], index, <<>>)
    ELSE Result([s EXCEPT !.e[s.h.len_entries] = Occupied(new_value),
                          !.h.last_vacant = @ + 1,
                          !.h.len_entries = @ + 1,
                          !.h.len = @ + 1],
                s.h.len_entries + 1, <<>>)

\* Stash::take
take(s, at) ==
    IF at >= len(s) THEN Result(s, None, <<>>)
    ELSE
    LET lv == Cell(s.e, s.h.last_vacant) IN
    IF has_vacant_entries(s) /\ lv = NoEntry
    THEN Result(Abort(s, "take: last_vacant must point to an existing entry"),
                0, <<>>)
    ELSE IF has_vacant_entries(s) /\ ~is_vacant(lv)
    THEN Result(Abort(s, "take: last_vacant must point to a vacant entry"), 0, <<>>)
    ELSE
    LET prev == IF has_vacant_entries(s) THEN lv.prev ELSE at
        next == IF has_vacant_entries(s) THEN lv.next ELSE at
        taken_entry == Cell(s.e, at)
    IN
    IF taken_entry = NoEntry
    THEN Result(Abort(s, "take: index is within bounds"), 0, <<>>)
    ELSE IF is_vacant(taken_entry) THEN Result(s, None, <<>>)
    ELSE
    LET s1 == [s EXCEPT !.e[at] = Vacant(prev, next)]
        s2 == IF prev = next
              THEN Relink(s1, next, TRUE, at, TRUE, at, "take: next must exist")
              ELSE Relink(Relink(s1, prev, FALSE, 0, TRUE, at,
                                 "take: prev must exist"),
                          next, TRUE, at, FALSE, 0, "take: next must exist")
    IN IF s2.fail # "none" THEN Result(s2, 0, <<>>)
       ELSE Result([s2 EXCEPT !.h.last_vacant = Min(at, Min(prev, next)),
                              !.h.len = @ - 1],
                   taken_entry.val, <<>>)

\* The body of defrag's loop for one index: Entry::Vacant or Entry::Occupied,
\* then header.len_entries -= 1.
defrag_step(s, index) ==
    LET c  == Cell(s.e, index)
        s1 == [s EXCEPT !.e[index] = NoEntry]
    IN
    IF c = NoEntry
    THEN Result(Abort(s1, "defrag: index is within bounds"), 0, <<>>)
    ELSE IF is_vacant(c)
    THEN LET s2 == remove_vacant_entry(s1, index, c.prev, c.next)
         IN IF s2.fail # "none" THEN Result(s2, 0, <<>>)
            ELSE Result([s2 EXCEPT !.h.len_entries = @ - 1], 0, <<>>)
    ELSE
    LET vacant_index == s1.h.last_vacant
        call == <<index, vacant_index, c.val>>
        old  == Cell(s1.e, vacant_index)
        s2   == [s1 EXCEPT !.e[vacant_index] = Occupied(c.val)]
    IN
    IF old = NoEntry
    THEN Result(Abort(s2, "defrag: next_vacant must point to a cell"), 0, <<call>>)
    ELSE IF is_occupied(old)
    THEN Result(Abort(s2, "defrag: next_vacant must point to a vacant entry"),
                0, <<call>>)
    ELSE LET s3 == remove_vacant_entry(s2, index, old.prev, old.next)
         IN IF s3.fail # "none" THEN Result(s3, 0, <<call>>)
            ELSE Result([s3 EXCEPT !.h.len_entries = @ - 1], 0, <<call>>)

\* defrag's loop: for index in (0..len_entries).rev().take(n), from `index`
\* down with `left` iterations to go.
RECURSIVE defrag_loop(_, _, _, _)
defrag_loop(s, index, left, moves) ==
    IF index < 0 \/ left = 0 THEN Result(s, 0, moves)
    ELSE IF ~has_vacant_entries(s) THEN Result(s, 0, moves)
    ELSE LET r == defrag_step(s, index)
         IN IF r.st.fail # "none" THEN Result(r.st, 0, moves \o r.moves)
            ELSE defrag_loop(r.st, index - 1, left - 1, moves \o r.moves)

\* Stash::defrag
defrag(s, max_iterations) ==
    defrag_loop(s, len_entries(s) - 1,
                IF max_iterations = None THEN len_entries(s) ELSE max_iterations,
                <<>>)

\* ------------------------------------------------------------- SmallVec

\* The indices handed to the SmallVec operations: those of the array and one
\* past them.
VIdx == 0..Capacity

\* The SmallVec as one value, for the pure operators below.
SmallVec == [len |-> vec.len, elems |-> vec.elems, fail |-> "none"]

\* SmallVec::new
sv_new == [len |-> 0, elems |-> [i \in 0..(Capacity - 1) |-> None], fail |-> "none"]

\* SmallVec::capacity
capacity == Capacity

\* SmallVec::len
sv_len(s) == s.len

\* SmallVec::is_empty
is_empty(s) == sv_len(s) = 0

\* SmallVec::within_bounds
within_bounds(s, index) == IF index < sv_len(s) THEN index ELSE None

\* LazyArray::get: the value of the cell, None for an empty one or an index
\* that is none of the array.
elems_get(s, index) == IF index \in DOMAIN s.elems THEN s.elems[index] ELSE None

\* LazyArray::put: fatal for an index that is none of the array.
elems_put(s, index, value) ==
    IF s.fail # "none" THEN s
    ELSE IF index \notin DOMAIN s.elems THEN Abort(s, "LazyArray::put: index out of bounds")
    ELSE [s EXCEPT !.elems[index] = value]

\* LazyArray::swap: fatal for an index that is none of the array.
elems_swap(s, a, b) ==
    IF s.fail # "none" THEN s
    ELSE IF a \notin DOMAIN s.elems \/ b \notin DOMAIN s.elems
    THEN Abort(s, "LazyArray::swap: index out of bounds")
    ELSE [s EXCEPT !.elems[a] = s.elems[b], !.elems[b] = s.elems[a]]

\* SmallVec::get
sv_get(s, index) ==
    IF within_bounds(s, index) = None THEN None ELSE elems_get(s, index)

\* a - b in the index type: with overflow checks (a debug build) a negative
\* difference is a panic, told by None; without them it wraps around.
index_sub(a, b, overflow_checks) ==
    IF a >= b THEN a - b
    ELSE IF overflow_checks THEN None
    ELSE (a - b) % (2 ^ IndexBits)

\* SmallVec::last
sv_last(s, overflow_checks) ==
    LET last_index == index_sub(sv_len(s), 1, overflow_checks)
    IN IF last_index = None
       THEN Result(Abort(s, "attempt to subtract with overflow"), None, <<>>)
       ELSE Result(s, sv_get(s, last_index), <<>>)

\* SmallVec::get_mut
sv_get_mut(s, index) ==
    IF within_bounds(s, index) = None THEN None ELSE elems_get(s, index)

\* SmallVec::last_mut
sv_last_mut(s, overflow_checks) ==
    LET last_index == index_sub(sv_len(s), 1, overflow_checks)
    IN IF last_index = None
       THEN Result(Abort(s, "attempt to subtract with overflow"), None, <<>>)
       ELSE Result(s, sv_get_mut(s, last_index), <<>>)

\* SmallVec::push, a variant whose capacity check is off by one.
push_offbyone(s, value) ==
    IF ~(sv_len(s) <= capacity)
    THEN Result(Abort(s, "cannot push more elements into the vector"), Unit, <<>>)
    ELSE LET last_index == sv_len(s)
         IN Result(elems_put([s EXCEPT !.len = @ + 1], last_index, value), Unit, <<>>)

\* SmallVec::push, a variant that reads the index after the increment.
push_late_index(s, value) ==
    IF ~(sv_len(s) < capacity)
    THEN Result(Abort(s, "cannot push more elements into the vector"), Unit, <<>>)
    ELSE LET s1 == [s EXCEPT !.len = @ + 1]
         IN Result(elems_put(s1, sv_len(s1), value), Unit, <<>>)

\* SmallVec::push
push(s, value) ==
    IF ~(sv_len(s) < capacity)
    THEN Result(Abort(s, "cannot push more elements into the vector"), Unit, <<>>)
    ELSE LET last_index == sv_len(s)
         IN Result(elems_put([s EXCEPT !.len = @ + 1], last_index, value), Unit, <<>>)

\* SmallVec::pop, a variant that reads the last element and leaves it in its cell.
pop_keep(s) ==
    IF is_empty(s) THEN Result(s, None, <<>>)
    ELSE LET last_index == sv_len(s) - 1
         IN Result([s EXCEPT !.len = last_index], elems_get(s, last_index), <<>>)

\* SmallVec::pop
pop(s) ==
    IF is_empty(s) THEN Result(s, None, <<>>)
    ELSE LET last_index == sv_len(s) - 1
             s1 == [s EXCEPT !.len = last_index]
         IN Result(elems_put(s1, last_index, None), elems_get(s1, last_index), <<>>)

\* SmallVec::pop_drop, a variant that leaves the dropped element in its cell.
pop_drop_keep(s) ==
    IF is_empty(s) THEN Result(s, Unit, <<>>)
    ELSE Result([s EXCEPT !.len = sv_len(s) - 1], Unit, <<>>)

\* SmallVec::pop_drop
pop_drop(s) ==
    IF is_empty(s) THEN Result(s, Unit, <<>>)
    ELSE LET last_index == sv_len(s) - 1
         IN Result(elems_put([s EXCEPT !.len = last_index], last_index, None),
                   Unit, <<>>)

\* SmallVec::swap
swap(s, a, b) == Result(elems_swap(s, a, b), Unit, <<>>)

\* SmallVec::swap_remove, a variant that forgets the swap.
swap_remove_noswap(s, n) == IF is_empty(s) THEN Result(s, None, <<>>) ELSE pop(s)

\* SmallVec::swap_remove
swap_remove(s, n) ==
    IF is_empty(s) THEN Result(s, None, <<>>)
    ELSE LET s1 == elems_swap(s, n, sv_len(s) - 1)
         IN IF s1.fail # "none" THEN Result(s1, None, <<>>) ELSE pop(s1)

\* SmallVec::swap_remove_drop
swap_remove_drop(s, n) ==
    IF is_empty(s) THEN Result(s, None, <<>>)
    ELSE LET s1 == elems_put(s, n, None)
             last_index == sv_len(s) - 1
             lastv == elems_get(s1, last_index)
             s2 == elems_put(s1, last_index, None)
             s3 == elems_put(s2, n, lastv)
         IN IF s3.fail # "none" THEN Result(s3, None, <<>>)
            ELSE Result([s3 EXCEPT !.len = last_index], Unit, <<>>)

\* ----------------------------------------------- Iter over a storage Vec

\* The storage vectors of at most MaxLen elements.
Vecs == UNION {[1..n -> Values] : n \in 0..MaxLen}

\* Vec::len of the borrowed vector.
vec_len(v) == Len(v)

\* Vec::get of the borrowed vector: the element, None past the end.
vec_get(v, index) == IF index >= 0 /\ index < Len(v) THEN v[index + 1] ELSE None

\* Iter::new
iter_new(v) == [begin |-> 0, end |-> vec_len(v), fail |-> "none"]

\* The result of an Iter call: the iterator after it, what it returned and
\* the index it read (None when it read none).
Yield(i, r, at) == [st |-> i, ret |-> IF i.fail # "none" THEN Aborted ELSE r,
                    at |-> at]

\* Iter::next, a variant that reads the element after moving begin.
iter_next_late(v, i) ==
    IF ~(i.begin <= i.end)
    THEN Yield(Abort(i, "assertion failed: self.begin <= self.end"), None, None)
    ELSE IF i.begin = i.end THEN Yield(i, None, None)
    ELSE Yield([i EXCEPT !.begin = @ + 1], vec_get(v, i.begin + 1), i.begin + 1)

\* Iter::next
iter_next(v, i) ==
    IF ~(i.begin <= i.end)
    THEN Yield(Abort(i, "assertion failed: self.begin <= self.end"), None, None)
    ELSE IF i.begin = i.end THEN Yield(i, None, None)
    ELSE LET cur == i.begin
         IN Yield([i EXCEPT !.begin = @ + 1], vec_get(v, cur), cur)

\* Iter::size_hint
size_hint(i) == LET remaining == i.end - i.begin IN <<remaining, remaining>>

\* Iter::next_back, a variant that reads the element before moving end.
iter_next_back_early(v, i) ==
    IF ~(i.begin <= i.end)
    THEN Yield(Abort(i, "assertion failed: self.begin <= self.end"), None, None)
    ELSE IF i.begin = i.end THEN Yield(i, None, None)
    ELSE Yield([i EXCEPT !.end = @ - 1], vec_get(v, i.end), i.end)

\* Iter::next_back
iter_next_back(v, i) ==
    IF ~(i.begin <= i.end)
    THEN Yield(Abort(i, "assertion failed: self.begin <= self.end"), None, None)
    ELSE IF i.begin = i.end THEN Yield(i, None, None)
    ELSE IF i.end = 0
    THEN Yield(Abort(i, "assertion failed: self.end != 0"), None, None)
    ELSE LET i1 == [i EXCEPT !.end = @ - 1]
         IN Yield(i1, vec_get(v, i1.end), i1.end)

\* ------------------------------------------------------------ StorageBox

\* The keys of the cells the caller's cursor runs over.
CellKeys == 0..(NumCells - 1)

\* The keys of the dynamic allocator, apart from the cells above.
BoxKeys == NumCells..(NumCells + NumBoxKeys - 1)

\* The values a box wraps and a sibling field holds.
BoxValues == {10, 20}

\* What a cell of the store holds: nothing, an encoded Key, an encoded value.
CNone == [is |-> "none", x |-> 0]

CKey(k) == [is |-> "key", x |-> k]

CVal(v) == [is |-> "val", x |-> v]

\* KeyPtr::from(key): a cursor of its own that starts at key.
KeyPtr_from(key) == key

\* A store and a cursor over it, as the forwarding functions thread them.
Fwd(st, cur, out, why) == [store |-> st, cur |-> cur, out |-> out, fail |-> why]

\* <Key as PullForward>::pull_forward: decodes the key of the cell at the
\* cursor and advances the cursor by the footprint of a Key.
key_pull_forward(st, cur) ==
    IF st[cur].is = "key" THEN Fwd(st, cur + KeyFootprint, st[cur].x, "none")
    ELSE Fwd(st, cur, None, "Key::pull_forward: the cell holds no key")

\* <Key as PushForward>::push_forward
key_push_forward(st, cur, key) ==
    Fwd([st EXCEPT ![cur] = CKey(key)], cur + KeyFootprint, None, "none")

\* <Key as ClearForward>::clear_forward
key_clear_forward(st, cur) ==
    Fwd([st EXCEPT ![cur] = CNone], cur + KeyFootprint, None, "none")

\* storage::Lazy::lazy(key): bound to key, nothing loaded (None).
lazy_lazy(key) == None

\* <Lazy<T> as PushForward>::push_forward: writes the cached value at the
\* cursor; one not loaded yet is pulled first and written back.
lazy_push_forward(st, cur, value) ==
    Fwd([st EXCEPT ![cur] = IF value = None THEN @ ELSE CVal(value)],
        cur + 1, None, "none")

\* <Lazy<T> as ClearForward>::clear_forward: erases the cell at the cursor.
lazy_clear_forward(st, cur) == Fwd([st EXCEPT ![cur] = CNone], cur + 1, None, "none")

\* The store, the caller's cursor and the box as one value.
World == [store |-> store, ptr |-> ptr, box |-> box, fail |-> "none"]

NoBox == [alive |-> FALSE, key |-> 0, value |-> None]

\* <StorageBox<T> as PullForward>::pull_forward
pull_forward(w) ==
    LET k == key_pull_forward(w.store, w.ptr)
    IN IF k.fail # "none" THEN Abort(w, k.fail)
       ELSE [w EXCEPT !.ptr = k.cur,
                      !.box = [alive |-> TRUE, key |-> k.out,
                               value |-> lazy_lazy(k.out)]]

\* push_forward, a variant that pushes the value through the caller's cursor.
push_forward_inline(w) ==
    LET k == key_push_forward(w.store, w.ptr, w.box.key)
        v == lazy_push_forward(k.store, k.cur, w.box.value)
    IN [w EXCEPT !.store = v.store, !.ptr = v.cur]

\* <StorageBox<T> as PushForward>::push_forward
push_forward(w) ==
    LET k == key_push_forward(w.store, w.ptr, w.box.key)
        v == lazy_push_forward(k.store, KeyPtr_from(w.box.key), w.box.value)
    IN [w EXCEPT !.store = v.store, !.ptr = k.cur]

\* <StorageBox<T> as ClearForward>::clear_forward
clear_forward(w) ==
    LET k == key_clear_forward(w.store, w.ptr)
        v == lazy_clear_forward(k.store, KeyPtr_from(w.box.key))
    IN [w EXCEPT !.store = v.store, !.ptr = k.cur]

\* <StorageBox<T> as Drop>::drop
drop(w) ==
    LET v == lazy_clear_forward(w.store, KeyPtr_from(w.box.key))
    IN [w EXCEPT !.store = v.store, !.box = NoBox]

\* ------------------------------------------------------------- the run

\* The documented scenario: put(10), put(20), put(30), take(1), put(40).
Script == << <<"put", 10>>, <<"put", 20>>, <<"put", 30>>, <<"take", 1>>,
             <<"put", 40>> >>

\* scn after a call: one further along Script when the call is its next one.
Follow(op, arg) ==
    IF scn >= 0 /\ scn < Len(Script) /\ Script[scn + 1] = <<op, arg>>
    THEN scn + 1 ELSE -1

Init ==
    /\ header = new.h
    /\ entries = new.e
    /\ failed = "none"
    /\ last = [op |-> "new", arg |-> 0, ret |-> 0, moves |-> <<>>]
    /\ pre = [h |-> new.h, e |-> new.e]
    /\ ndefrag = 0
    /\ scn = 0
    /\ vec = [len |-> sv_new.len, elems |-> sv_new.elems]
    /\ vfailed = "none"
    /\ vlast = [op |-> "new", a |-> 0, b |-> 0, ret |-> Unit]
    /\ vpre = [len |-> sv_new.len, elems |-> sv_new.elems]
    /\ ivec = <<>>
    /\ it = iter_new(<<>>)
    /\ yielded = <<>>
    /\ itlast = [op |-> "new", ret |-> None]
    /\ store = [k \in CellKeys \cup BoxKeys |-> CNone]
    /\ ptr = 0
    /\ box = NoBox
    /\ bfailed = "none"
    /\ blast = [op |-> "new", ptr |-> 0]
    /\ bpre = [k \in CellKeys \cup BoxKeys |-> CNone]

\* A call of `op` with `arg` whose result is r.
Call(op, arg, r) ==
    /\ header' = r.st.h
    /\ entries' = r.st.e
    /\ failed' = r.st.fail
    /\ last' = [op |-> op, arg |-> arg, ret |-> r.ret, moves |-> r.moves]
    /\ pre' = [h |-> header, e |-> entries]
    /\ scn' = Follow(op, arg)
    /\ UNCHANGED <<vecVars, iterVars, boxVars>>

Put(v) ==
    /\ failed = "none"
    /\ has_vacant_entries(Stash) \/ header.len_entries < MaxEntries
    /\ Call("put", v, put(Stash, v))
    /\ UNCHANGED ndefrag

Take(at) ==
    /\ failed = "none"
    /\ Call("take", at, take(Stash, at))
    /\ UNCHANGED ndefrag

Defrag(max_iterations) ==
    /\ failed = "none"
    /\ Call("defrag", max_iterations, defrag(Stash, max_iterations))
    /\ ndefrag' = Min(ndefrag + 1, 2)

NextPT ==
    \/ \E v \in Values : Put(v)
    \/ \E at \in Idx : Take(at)

Next ==
    \/ \E v \in Values : Put(v)
    \/ \E at \in Idx : Take(at)
    \/ \E m \in MaxIters : Defrag(m)

\* A SmallVec call of `op` with the arguments a and b whose result is r.
VCall(op, a, b, r) ==
    /\ vec' = [len |-> r.st.len, elems |-> r.st.elems]
    /\ vfailed' = r.st.fail
    /\ vlast' = [op |-> op, a |-> a, b |-> b, ret |-> r.ret]
    /\ vpre' = vec
    /\ UNCHANGED <<stashVars, iterVars, boxVars>>

Push(v) ==
    /\ vfailed = "none"
    /\ VCall("push", v, 0, push(SmallVec, v))

Pop ==
    /\ vfailed = "none"
    /\ VCall("pop", 0, 0, pop(SmallVec))

PopDrop ==
    /\ vfailed = "none"
    /\ VCall("pop_drop", 0, 0, pop_drop(SmallVec))

Swap(a, b) ==
    /\ vfailed = "none"
    /\ VCall("swap", a, b, swap(SmallVec, a, b))

SwapRemove(n) ==
    /\ vfailed = "none"
    /\ VCall("swap_remove", n, 0, swap_remove(SmallVec, n))

SwapRemoveDrop(n) ==
    /\ vfailed = "none"
    /\ VCall("swap_remove_drop", n, 0, swap_remove_drop(SmallVec, n))

\* last(), in a build with or without overflow checks.
Last(overflow_checks) ==
    /\ vfailed = "none"
    /\ VCall("last", 0, 0, sv_last(SmallVec, overflow_checks))

\* last_mut(), in a build with or without overflow checks.
LastMut(overflow_checks) ==
    /\ vfailed = "none"
    /\ VCall("last_mut", 0, 0, sv_last_mut(SmallVec, overflow_checks))

NextSV ==
    \/ \E v \in Values : Push(v)
    \/ Pop
    \/ PopDrop
    \/ \E a, b \in VIdx : Swap(a, b)
    \/ \E n \in VIdx : SwapRemove(n)
    \/ \E n \in VIdx : SwapRemoveDrop(n)
    \/ \E overflow_checks \in BOOLEAN : Last(overflow_checks)
    \/ \E overflow_checks \in BOOLEAN : LastMut(overflow_checks)

\* vec.iter() on a storage vector v.
IterNew(v) ==
    /\ ivec' = v
    /\ it' = iter_new(v)
    /\ yielded' = <<>>
    /\ itlast' = [op |-> "new", ret |-> None]
    /\ UNCHANGED <<stashVars, vecVars, boxVars>>

\* An Iter call of `op` whose result is r.
ICall(op, r) ==
    /\ it' = r.st
    /\ yielded' = IF r.ret \in Values THEN Append(yielded, <<r.at, r.ret>>)
                  ELSE yielded
    /\ itlast' = [op |-> op, ret |-> r.ret]
    /\ UNCHANGED <<ivec, stashVars, vecVars, boxVars>>

IterNext ==
    /\ it.fail = "none"
    /\ ICall("next", iter_next(ivec, it))

IterNextBack ==
    /\ it.fail = "none"
    /\ ICall("next_back", iter_next_back(ivec, it))

NextIterFwd ==
    \/ \E v \in Vecs : IterNew(v)
    \/ IterNext

NextIter ==
    \/ \E v \in Vecs : IterNew(v)
    \/ IterNext
    \/ IterNextBack

\* Every Iter driven by next() alone.
SpecIterFwd == Init /\ [][NextIterFwd]_vars

\* Every Iter driven by next() and next_back() in any order.
SpecIter == Init /\ [][NextIter]_vars

\* A box call of `op` that leaves the world w.
BCall(op, w) ==
    /\ store' = w.store
    /\ ptr' = w.ptr
    /\ box' = w.box
    /\ bfailed' = w.fail
    /\ blast' = [op |-> op, ptr |-> ptr]
    /\ bpre' = store
    /\ UNCHANGED <<stashVars, vecVars, iterVars>>

\* Box::new(value): a key of the allocator and the value, in memory only.
BoxNew(key, value) ==
    /\ bfailed = "none" /\ ~box.alive
    /\ BCall("new", [World EXCEPT !.box = [alive |-> TRUE, key |-> key,
                                            value |-> value]])

\* The caller starts a cursor at the cell p.
Seek(p) ==
    /\ bfailed = "none"
    /\ BCall("seek", [World EXCEPT !.ptr = p])

\* The caller pushes a sibling field, a plain value of one cell.
PushSibling(value) ==
    /\ bfailed = "none" /\ ptr \in CellKeys
    /\ BCall("sibling", [World EXCEPT !.store[ptr] = CVal(value), !.ptr = @ + 1])

PullForward ==
    /\ bfailed = "none" /\ ~box.alive /\ ptr \in CellKeys
    /\ BCall("pull_forward", pull_forward(World))

PushForward ==
    /\ bfailed = "none" /\ box.alive /\ ptr \in CellKeys
    /\ BCall("push_forward", push_forward(World))

ClearForward ==
    /\ bfailed = "none" /\ box.alive /\ ptr \in CellKeys
    /\ BCall("clear_forward", clear_forward(World))

Drop ==
    /\ bfailed = "none" /\ box.alive
    /\ BCall("drop", drop(World))

NextBox ==
    \/ \E key \in BoxKeys, value \in BoxValues : BoxNew(key, value)
    \/ \E p \in CellKeys : Seek(p)
    \/ \E value \in BoxValues : PushSibling(value)
    \/ PullForward
    \/ PushForward
    \/ ClearForward
    \/ Drop

\* Every sequence of box and cursor calls over a store that starts empty.
SpecBox == Init /\ [][NextBox]_vars

\* Every sequence of calls on a SmallVec that starts empty.
SpecSV == Init /\ [][NextSV]_vars

\* Every sequence of put, take and defrag calls on a stash that starts empty.
Spec == Init /\ [][Next]_vars

\* Every sequence of put and take calls on a stash that starts empty.
SpecPT == Init /\ [][NextPT]_vars

\* ------------------------------------------------------------ the claims

\* The stash as it was before the last call.
Pre == [h |-> pre.h, e |-> pre.e, fail |-> "none", skip |-> FALSE]

\* The indices of [0, len_entries) whose entry is Occupied, resp. Vacant.
OccupiedIn(s) == {i \in 0..(len_entries(s) - 1) : is_occupied(Cell(s.e, i))}

VacantIn(s) == {i \in 0..(len_entries(s) - 1) : is_vacant(Cell(s.e, i))}

\* The multiset of the values stored in Occupied entries.
ValueBag(s) == [v \in Values |-> Cardinality({i \in OccupiedIn(s) : s.e[i].val = v})]

\* The entry reached from index i by following `next` k times.
RECURSIVE NthNext(_, _, _)
NthNext(s, i, k) == IF k = 0 THEN i ELSE NthNext(s, Cell(s.e, i).next, k - 1)

\* The entries met on the first n steps along `next` from last_vacant.
Walked(s, n) == {NthNext(s, s.h.last_vacant, k) : k \in 0..(n - 1)}

\* C1: for every sequence of put and take calls on a stash that starts
\* empty, len() is the number of entries in [0, len_entries) that are
\* Occupied.
C1_LenCountsOccupied == header.len = Cardinality(OccupiedIn(Stash))

\* C1's case: a take has removed an element while others stay and an older
\* vacancy exists, so Occupied and Vacant entries are interleaved.
C1_Witness ==
    /\ last.op = "take" /\ last.ret \in Values
    /\ header.len >= 1
    /\ Cardinality(VacantIn(Stash)) >= 2

\* C2: after i = put(v), get(i) = Some(v); when no vacant slot existed, i is
\* the len_entries of before the call.
C2_PutReturnsSlot ==
    (last.op = "put" /\ failed = "none") =>
        /\ get(Stash, last.ret) = last.arg
        /\ ~has_vacant_entries(Pre) => last.ret = pre.h.len_entries

\* C3: take(put(v)) = Some(v): taking the index a put has just returned
\* gives back the value put.
C3_TakeOfPut ==
    (last.op = "put" /\ failed = "none") =>
        take(Stash, last.ret).ret = last.arg

\* C4: the free list is well formed: the walk along `next` from last_vacant
\* is back at last_vacant after len_entries - len steps, meets only Vacant
\* entries and every Vacant entry, and prev is the inverse of next.
C4_FreeListWellFormed ==
    LET n == header.len_entries - header.len
        w == Walked(Stash, n)
    IN (failed = "none" /\ n > 0) =>
        /\ NthNext(Stash, header.last_vacant, n) = header.last_vacant
        /\ \A i \in w : is_vacant(Cell(entries, i))
        /\ VacantIn(Stash) \subseteq w
        /\ \A i \in w : Cell(entries, Cell(entries, i).next).prev = i

\* C5: when no entry is Vacant, last_vacant = len_entries; otherwise
\* last_vacant is an index below len_entries of a Vacant entry.
C5_HeaderSentinel ==
    failed = "none" =>
        IF VacantIn(Stash) = {}
        THEN header.last_vacant = header.len_entries
        ELSE /\ header.last_vacant < header.len_entries
             /\ is_vacant(Cell(entries, header.last_vacant))

\* C6: on an empty stash put(10), put(20), put(30) return 0, 1, 2; take(1)
\* returns Some(20) with len() = 2 and last_vacant = 1; put(40) returns 1
\* with len() = 3 and get(1) = Some(40).
C6_Scenario ==
    /\ scn = 1 => last.ret = 0
    /\ scn = 2 => last.ret = 1
    /\ scn = 3 => last.ret = 2
    /\ scn = 4 => last.ret = 20 /\ header.len = 2 /\ header.last_vacant = 1
    /\ scn = 5 => last.ret = 1 /\ header.len = 3 /\ get(Stash, 1) = 40

\* C7: take(at) of an index with get(at) = Some(v) returns Some(v),
\* decrements len by one and leaves get(at) = None.
C7_TakeReturnsElement ==
    (last.op = "take" /\ failed = "none" /\ get(Pre, last.arg) # None) =>
        /\ last.ret = get(Pre, last.arg)
        /\ header.len = pre.h.len - 1
        /\ get(Stash, last.arg) = None

\* C8: take(at) of an index that is out of range or whose entry is Vacant
\* returns None and changes neither the header nor any entry.
C8_TakeOfAbsent ==
    (/\ last.op = "take"
     /\ \/ last.arg >= pre.h.len_entries
        \/ is_vacant(Cell(pre.e, last.arg))) =>
        /\ last.ret = None
        /\ header = pre.h
        /\ entries = pre.e

\* C9: a put or a take(at) changes get(i) for no index i that was Occupied
\* before the call, other than the index put returned, respectively at.
C9_IndexStability ==
    \A i \in Idx :
        (/\ last.op \in {"put", "take"}
         /\ get(Pre, i) # None
         /\ last.op = "put" => i # last.ret
         /\ last.op = "take" => i # last.arg) =>
            get(Stash, i) = get(Pre, i)

\* C10: a defrag called in a state reached by put and take leaves len() and
\* the multiset of the stored values unchanged.
C10_DefragPreserves ==
    (last.op = "defrag" /\ ndefrag = 1) =>
        /\ header.len = pre.h.len
        /\ ValueBag(Stash) = ValueBag(Pre)

\* C11: after defrag(None, _) has returned on a state reached by put and
\* take, len_entries = len, no entry of [0, len_entries) is Vacant and
\* has_vacant_entries() is false.
C11_FullCompaction ==
    (last.op = "defrag" /\ last.arg = None /\ failed = "none" /\ ndefrag = 1) =>
        /\ header.len_entries = header.len
        /\ VacantIn(Stash) = {}
        /\ ~has_vacant_entries(Stash)

\* The callback invocations of the last defrag, as a set of positions.
Moves == 1..Len(last.moves)

\* C12: defrag invokes the callback once per moved entry, with (old_index,
\* new_index, value) where new_index < old_index and new_index was Vacant;
\* once defrag has returned, get(new_index) = Some(value) and old_index is
\* no index of the stash any more.
C12_CallbackPerMove ==
    (last.op = "defrag" /\ ndefrag = 1) =>
        /\ \A k \in Moves :
              /\ get(Pre, last.moves[k][1]) = last.moves[k][3]
              /\ last.moves[k][2] < last.moves[k][1]
              /\ is_vacant(Cell(pre.e, last.moves[k][2]))
        /\ \A j, k \in Moves : j # k => last.moves[j][1] # last.moves[k][1]
        /\ failed = "none" =>
              \A k \in Moves :
                  /\ get(Stash, last.moves[k][2]) = last.moves[k][3]
                  /\ last.moves[k][1] >= header.len_entries

\* C13: no sequence of put, take and defrag calls on a stash that starts
\* empty ends in one of the corruption assertions.
C13_NoCorruptionAssertion == failed = "none"

\* ------------------------------------------------- the claims (SmallVec)

\* The SmallVec as it was before the last call.
VPre == [len |-> vpre.len, elems |-> vpre.elems, fail |-> "none"]

\* C14: len() <= capacity() in every state of every sequence of SmallVec
\* operations.
C14_LenWithinCapacity == vec.len <= capacity

\* C14's case: pushes have filled the vector to its capacity.
C14_Witness == vlast.op = "push" /\ vfailed = "none" /\ vec.len = capacity

\* C15: push on a full vector fails fatally and changes neither len nor any
\* element; otherwise it writes the value at index len and increments len.
C15_Push ==
    vlast.op = "push" =>
        IF vpre.len = capacity
        THEN vfailed # "none" /\ vec = vpre
        ELSE /\ vfailed = "none"
             /\ vec.len = vpre.len + 1
             /\ vec.elems = [vpre.elems EXCEPT ![vpre.len] = vlast.a]

\* C15's case: a push on a full vector, after pushes that went through.
C15_Witness ==
    vlast.op = "push" /\ vpre.len = capacity /\ vfailed # "none"

\* C16: pop on an empty vector returns None and changes nothing; otherwise
\* it returns the element at index len - 1, decrements len and clears that
\* slot; a pop after push(v) returns Some(v).
C16_Pop ==
    /\ vlast.op = "pop" =>
          /\ vfailed = "none"
          /\ IF vpre.len = 0
             THEN vlast.ret = None /\ vec = vpre
             ELSE /\ vlast.ret = vpre.elems[vpre.len - 1]
                  /\ vec.len = vpre.len - 1
                  /\ vec.elems = [vpre.elems EXCEPT ![vpre.len - 1] = None]
    /\ (vlast.op = "push" /\ vfailed = "none") => pop(SmallVec).ret = vlast.a

\* C16's case: a pop that returned an element and left others behind.
C16_Witness ==
    vlast.op = "pop" /\ vlast.ret \in Values /\ vec.len >= 1

\* The vector [a, b, c, d] of the documented example.
Abcd == [len |-> 4, elems |-> (0 :> 10) @@ (1 :> 20) @@ (2 :> 30) @@ (3 :> 40),
         fail |-> "none"]

\* C17: swap_remove(n) with n < len() returns the element of index n, moves
\* the last element into index n, decrements len and leaves the other
\* indices alone; on [a, b, c, d], swap_remove(1) returns b and leaves
\* [a, d, c].
C17_SwapRemove ==
    /\ (vlast.op = "swap_remove" /\ vlast.a < vpre.len) =>
          /\ vfailed = "none"
          /\ vlast.ret = vpre.elems[vlast.a]
          /\ vec.len = vpre.len - 1
          /\ \A i \in 0..(vec.len - 1) :
                vec.elems[i] = IF i = vlast.a THEN vpre.elems[vpre.len - 1]
                               ELSE vpre.elems[i]
    /\ swap_remove(Abcd, 1).ret = 20
    /\ swap_remove(Abcd, 1).st.len = 3
    /\ swap_remove(Abcd, 1).st.elems = (0 :> 10) @@ (1 :> 40) @@ (2 :> 30) @@ (3 :> None)

\* C17's case: an element other than the last was removed from a vector of
\* three and the last one took its place.
C17_Witness ==
    /\ vlast.op = "swap_remove" /\ vlast.a = 0 /\ vpre.len = 3
    /\ vlast.ret \in Values
    /\ vec.elems[0] = vpre.elems[2] /\ vpre.elems[2] # vpre.elems[0]

\* C18: swap_remove(n) with n >= len() returns None and changes neither len
\* nor any element at an index below len.
C18_SwapRemoveOutOfBounds ==
    (vlast.op = "swap_remove" /\ vfailed = "none" /\ vlast.a >= vpre.len) =>
        /\ vlast.ret = None
        /\ vec.len = vpre.len
        /\ \A i \in VIdx : sv_get(SmallVec, i) = sv_get(VPre, i)

\* C19: from the same state and for every n, swap_remove_drop(n) and
\* swap_remove(n) leave the same len and the same slots, and
\* swap_remove_drop returns Some(()) exactly when swap_remove returns
\* Some(_), and None otherwise.
C19_SwapRemoveDropEquivalent ==
    \A n \in VIdx :
        LET r == swap_remove(SmallVec, n)
            d == swap_remove_drop(SmallVec, n)
        IN /\ d.st.len = r.st.len
           /\ d.st.elems = r.st.elems
           /\ d.ret = Unit <=> r.ret \in Values
           /\ d.ret = None <=> r.ret = None

\* C20: in every state that no operation aborted in, get(i) is a value for
\* every i < len() and None for every i >= len().
C20_PresentBelowLen ==
    vfailed = "none" =>
        \A i \in VIdx :
            IF i < vec.len THEN sv_get(SmallVec, i) \in Values
            ELSE sv_get(SmallVec, i) = None

\* ------------------------------------------ the claims (stash, continued)

\* C22: after a take(at) that returned Some, last_vacant = at, and a put
\* issued next returns at, whatever other slots were vacant already.
C22_MostRecentReusedFirst ==
    (last.op = "take" /\ last.ret \in Values) =>
        /\ header.last_vacant = last.arg
        /\ \A v \in Values : put(Stash, v).ret = last.arg

\* C23: defrag(Some(k), _) leaves len_entries at most what it was and at
\* least that minus k; no defrag increases len_entries; with no vacant
\* entry a defrag changes nothing and never invokes the callback.
C23_DefragBounded ==
    (last.op = "defrag" /\ ndefrag = 1) =>
        /\ header.len_entries <= pre.h.len_entries
        /\ last.arg # None => header.len_entries >= pre.h.len_entries - last.arg
        /\ VacantIn(Pre) = {} =>
              /\ header = pre.h
              /\ entries = pre.e
              /\ failed = "none"
              /\ last.moves = <<>>

\* The last call again, from the state it was made in.
Replay ==
    CASE last.op = "put" -> put(Pre, last.arg)
      [] last.op = "take" -> take(Pre, last.arg)
      [] last.op = "defrag" -> defrag(Pre, last.arg)
      [] OTHER -> Result(Pre, 0, <<>>)

\* C24: no put, take or defrag that found an Occupied entry at the end of a
\* prev/next pointer left the neighbour update out and returned: such a call
\* ends in a fatal exit.
C24_NoSilentSkip == Replay.st.skip => failed # "none"

\* ---------------------------------------- the claims (SmallVec, continued)

\* C25: last() and last_mut() return None on an empty vector, without a
\* panic or a wrap-around of len() - 1, and the element at index len - 1 on
\* a non-empty one.
C25_LastOfEmpty ==
    vlast.op \in {"last", "last_mut"} =>
        /\ vfailed = "none"
        /\ vec = vpre
        /\ vlast.ret = IF vpre.len = 0 THEN None ELSE vpre.elems[vpre.len - 1]

\* C27: pop_drop() leaves the len and the slots that pop() leaves, from
\* every state, and changes nothing on an empty vector.
C27_PopDropEquivalent ==
    /\ pop_drop(SmallVec).st = pop(SmallVec).st
    /\ vlast.op = "pop_drop" =>
          /\ vfailed = "none"
          /\ vec.len = pop(VPre).st.len
          /\ vec.elems = pop(VPre).st.elems
          /\ vpre.len = 0 => vec = vpre

\* C27's case: a pop_drop has removed the last of several elements.
C27_Witness ==
    /\ vlast.op = "pop_drop"
    /\ vpre.len >= 2 /\ vpre.elems[vpre.len - 1] \in Values
    /\ vec.len = vpre.len - 1 /\ vec.elems[vec.len] = None

\* ---------------------------------------------------- the claims (Iter)

\* C21: an Iter driven by next() alone yields the elements of the indices
\* 0, 1, ..., len - 1 in that order, len items in all, and None on every
\* call after them.
C21_ForwardOrder ==
    /\ it.fail = "none"
    /\ Len(yielded) = it.begin /\ it.begin <= vec_len(ivec)
    /\ \A k \in 1..Len(yielded) : yielded[k] = <<k - 1, ivec[k]>>
    /\ itlast.op = "next" =>
          IF itlast.ret = None THEN Len(yielded) = vec_len(ivec)
          ELSE itlast.ret = yielded[Len(yielded)][2]
    /\ Len(yielded) = vec_len(ivec) =>
          /\ iter_next(ivec, it).ret = None
          /\ iter_next(ivec, it).st = it

\* C21's case: next() has yielded a whole vector of several different
\* elements and then returned None.
C21_Witness ==
    /\ itlast.op = "next" /\ itlast.ret = None
    /\ Len(yielded) = vec_len(ivec) /\ vec_len(ivec) >= 2
    /\ ivec[1] # ivec[2]

\* C26: under every interleaving of next() and next_back(), begin <= end
\* and no debug assertion fires, every index of [0, len) is yielded at most
\* once, len items are yielded by the time begin = end, size_hint() is the
\* number of items not yet yielded, and once begin = end both methods
\* return None and change nothing.
C26_DoubleEnded ==
    /\ it.fail = "none"
    /\ it.begin <= it.end
    /\ \A k \in 1..Len(yielded) :
          /\ yielded[k][1] \in 0..(vec_len(ivec) - 1)
          /\ yielded[k][2] = vec_get(ivec, yielded[k][1])
          /\ \A j \in 1..Len(yielded) : j # k => yielded[j][1] # yielded[k][1]
    /\ size_hint(it) = <<vec_len(ivec) - Len(yielded), vec_len(ivec) - Len(yielded)>>
    /\ it.begin = it.end =>
          /\ Len(yielded) = vec_len(ivec)
          /\ iter_next(ivec, it).ret = None /\ iter_next(ivec, it).st = it
          /\ iter_next_back(ivec, it).ret = None /\ iter_next_back(ivec, it).st = it
    /\ (itlast.op \in {"next", "next_back"} /\ itlast.ret = None) => it.begin = it.end

\* C26's case: both ends have been consumed, the iterator is exhausted in
\* the middle and a further call returned None.
C26_Witness ==
    /\ itlast.op = "next_back" /\ itlast.ret = None
    /\ it.begin = it.end /\ it.begin > 0 /\ it.end < vec_len(ivec)
    /\ Len(yielded) = vec_len(ivec)

\* ---------------------------------------------- the claims (StorageBox)

\* The cells that differ between the store before the last call and now.
Touched == {k \in DOMAIN store : store[k] # bpre[k]}

\* C28: pull_forward, push_forward and clear_forward of a box each advance
\* the caller's cursor by the box's footprint of one cell, the one that
\* holds the key; the wrapped value is written and cleared at the box's own
\* key only, and pull_forward reads no value; so a pull_forward from where
\* a push_forward started gives the same key and the same cursor, and no
\* sibling cell is touched.
C28_BoxForwarding ==
    /\ blast.op \in {"pull_forward", "push_forward", "clear_forward"} =>
          /\ bfailed = "none" => ptr = blast.ptr + BoxFootprint
          /\ Touched \subseteq {blast.ptr, box.key}
          /\ Touched \cap (CellKeys \ {blast.ptr}) = {}
    /\ (blast.op = "pull_forward" /\ bfailed = "none") =>
          /\ Touched = {}
          /\ bpre[blast.ptr] = CKey(box.key)
          /\ box.alive /\ box.value = None
    /\ blast.op = "push_forward" =>
          /\ store[blast.ptr] = CKey(box.key)
          /\ box.value # None => store[box.key] = CVal(box.value)
          /\ pull_forward([World EXCEPT !.ptr = blast.ptr]).ptr = ptr
          /\ pull_forward([World EXCEPT !.ptr = blast.ptr]).box.key = box.key
    /\ blast.op = "clear_forward" =>
          /\ store[blast.ptr] = CNone
          /\ store[box.key] = CNone

\* C28's case: a box with a value has been pushed into a cell between two
\* sibling fields, which still hold their values.
C28_Witness ==
    /\ blast.op = "push_forward" /\ blast.ptr = 1
    /\ box.value \in BoxValues /\ store[box.key] = CVal(box.value)
    /\ store[0].is = "val" /\ store[2].is = "val"
    /\ Touched = {blast.ptr, box.key}

====
